---- MODULE Spec2Model ----
(***************************************************************************)
(* Model of the clinical summary generator's core:                         *)
(*   - src/src/llm_service.py: generate_summary and the two provider       *)
(*     calls _call_gemini / _call_openai (dual-provider fallback);         *)
(*   - src/src/data_layer.py: format_for_llm (the narrative formatter),    *)
(*     and the record store load_all_data / get_patient_ids /              *)
(*     get_patient_data.                                                   *)
(*                                                                         *)
(* Python strings are TLA+ strings (Len, \o and SubSeq act on them), a     *)
(* dict is a function from its keys, None is the string "None" (what an    *)
(* f-string prints for it).                                                *)
(***************************************************************************)
EXTENDS Integers, Sequences, FiniteSets, TLC

VARIABLES
    \* ---- llm_service.py: module configuration and environment ----
    FORCE_PROVIDER,     \* os.getenv("FORCE_PROVIDER", "").lower()
    USE_FALLBACK,       \* os.getenv("USE_FALLBACK", "true").lower() == "true"
    LIB_AVAILABLE,      \* [provider -> BOOLEAN]: GEMINI_AVAILABLE / OPENAI_AVAILABLE
    KEY_CONFIGURED,     \* [provider -> BOOLEAN]: the API key is set and no placeholder
    responsive,         \* [provider -> BOOLEAN]: the remote service answers at all
    \* ---- one generate_summary call ----
    pc,                 \* position of the call
    inflight,           \* the provider whose _call_* is executing, or "none"
    gemini_error,       \* local of generate_summary
    openai_error,       \* local of generate_summary
    result,             \* the returned (summary, provider) tuple, or NoResult
    raised,             \* str() of the exception generate_summary raised, or "None"
    trace,              \* history: provider invocations and their outcomes
    \* ---- data_layer.py: one format_for_llm call ----
    patient_data,       \* the argument of format_for_llm
    fmt_pc,             \* "idle" | "ready" | "done" | "raised"
    output,             \* the returned string, as its sequence of lines
    prev_output,        \* what an earlier run of the program returned for the
                        \* same bundle, or NotRun
    \* ---- data_layer.py: the CSV files and one query on them ----
    files,              \* [key -> the file DATA_DIR/<key>.csv]
    store_pc,           \* "idle" | "ready" | "data" | "ids" | "raised"
    query,              \* the argument of get_patient_data (0: none)
    returned_data,      \* what get_patient_data returned, or NoData
    returned_ids        \* what get_patient_ids returned

llm_vars == <<FORCE_PROVIDER, USE_FALLBACK, LIB_AVAILABLE, KEY_CONFIGURED, responsive,
              pc, inflight, gemini_error, openai_error, result, raised, trace>>
fmt_vars == <<patient_data, fmt_pc, output, prev_output>>
store_vars == <<files, store_pc, query, returned_data, returned_ids>>
vars == <<llm_vars, fmt_vars, store_vars>>

(***************************************************************************)
(* Small helpers over Python values.                                       *)
(***************************************************************************)
None == "None"

Min(a, b) == IF a <= b THEN a ELSE b

\* s[:n] of a Python string
Prefix(s, n) == SubSeq(s, 1, Min(n, Len(s)))

\* sub in s, for Python strings
Contains(s, sub) ==
    \E i \in 1..(Len(s) - Len(sub) + 1) : SubSeq(s, i, i + Len(sub) - 1) = sub

\* d[k] = v on a dict
DictSet(d, k, v) == [x \in (DOMAIN d) \cup {k} |-> IF x = k THEN v ELSE d[x]]

(***************************************************************************)
(* The provider services: what a call over the network can come back with. *)
(***************************************************************************)
Providers == {"gemini", "openai"}

\* Values the environment variable FORCE_PROVIDER can hold: unset, the two
\* recognised names (in any case), and a name the code does not know.
ForceValues == {"", "openai", "gemini", "claude", "OpenAI", "GEMINI"}

UpperCase == "ABCDEFGHIJKLMNOPQRSTUVWXYZ"
LowerCase == "abcdefghijklmnopqrstuvwxyz"

\* str.lower()
RECURSIVE Lower(_)
Lower(s) ==
    IF Len(s) = 0 THEN ""
    ELSE LET c == SubSeq(s, 1, 1)
             up == {i \in 1..Len(UpperCase) : SubSeq(UpperCase, i, i) = c}
         IN  (IF up = {} THEN c
              ELSE LET i == CHOOSE i \in up : TRUE IN SubSeq(LowerCase, i, i))
               \o Lower(SubSeq(s, 2, Len(s)))

\* Reasons a client library raises for (network, auth, rate limit).
ApiErrors == {"connection reset", "401 invalid api key"}

SectionOK == [content |-> "c", citations |-> <<"Source: diagnoses.csv">>]
SectionNoCitations == [content |-> "c"]
SectionNoContent == [citations |-> <<"Source: diagnoses.csv">>]

\* JSON objects a model can answer with: the fixed schema, and objects
\* that parse but lack parts of it.
DocFull == [summary |-> "s", sections |-> [diagnoses |-> SectionOK]]
DocNoSummary == [sections |-> [diagnoses |-> SectionOK]]
DocNoSections == [summary |-> "s"]
DocSectionNoCitations == [summary |-> "s", sections |-> [diagnoses |-> SectionNoCitations]]
DocSectionNoContent == [summary |-> "s", sections |-> [diagnoses |-> SectionNoContent]]

DocShapes == {DocFull, DocNoSummary, DocNoSections, DocSectionNoCitations,
              DocSectionNoContent}

\* The "provider_used" value the model itself wrote into its answer.
RawProviderUsed == {"gemini", "openai", "bogus"}

JsonObjects == DocShapes \cup {DictSet(d, "provider_used", u) : d \in DocShapes, u \in RawProviderUsed}

\* A response text: its characters (body, inside an optional code fence)
\* and what the body denotes: a JSON object, another JSON value (an array,
\* a string), or no JSON.
Fences == {"none", "json", "plain"}

Body(kind, doc, label) == [kind |-> kind, doc |-> doc, label |-> label]

Bodies ==
    {Body("object", d, "{...}") : d \in JsonObjects}
      \cup {Body("array", <<>>, "[]"), Body("string", <<>>, "\"ok\""),
            Body("garbage", <<>>, "I cannot help")}

\* No response text (the call ended before any arrived).
NoText == [fence |-> "none", body |-> Body("none", <<>>, "")]

\* Fenced answers are drawn for the bodies where the fence decides the outcome.
ResponseTexts ==
    {[fence |-> "none", body |-> b] : b \in Bodies}
      \cup {[fence |-> f, body |-> b] :
              f \in {"json", "plain"},
              b \in {Body("object", DocFull, "{...}"),
                     Body("object", DocNoSummary, "{...}"),
                     Body("garbage", <<>>, "I cannot help")}}

\* The markdown code fence (three grave accents, written here with a
\* character a TLA+ string can hold).
FenceMark == "'''"

\* The characters of a response text.
Render(text) ==
    CASE text.fence = "json" -> FenceMark \o "json\n" \o text.body.label \o "\n" \o FenceMark
      [] text.fence = "plain" -> FenceMark \o "\n" \o text.body.label \o "\n" \o FenceMark
      [] OTHER -> text.body.label

(***************************************************************************)
(* _call_gemini / _call_openai: from the response text to the outcome.     *)
(* An outcome is [ok |-> TRUE, value |-> dict] (the function returns) or   *)
(* [ok |-> FALSE, error |-> str(e)] (it raises).                           *)
(***************************************************************************)
Returns(v) == [ok |-> TRUE, value |-> v, error |-> None]
Raises(msg) == [ok |-> FALSE, value |-> <<>>, error |-> msg]

\* llm_service.py:145-149: remove an enclosing markdown code fence.
StripFence(text) ==
    IF text.fence = "json" THEN [text EXCEPT !.fence = "none"]
    ELSE IF text.fence = "plain" THEN [text EXCEPT !.fence = "none"]
    ELSE text

\* A parser that looks for the JSON inside a code fence as well.
JsonLoads_IgnoresFence(text) ==
    IF text.body.kind \in {"object", "array", "string"}
    THEN [ok |-> TRUE, value |-> text.body, error |-> "None"]
    ELSE [ok |-> FALSE, value |-> <<>>, error |-> "Expecting value: line 1 column 1 (char 0)"]

\* json.loads: the parsed value, or JSONDecodeError when the text is not
\* JSON (a code fence around JSON is not JSON).
JsonLoads(text) ==
    IF text.fence = "none" /\ text.body.kind \in {"object", "array", "string"}
    THEN Returns(text.body)
    ELSE Raises("Expecting value: line 1 column 1 (char 0)")

\* As SetProviderUsed, but keeping a "provider_used" the answer already has
\* (setdefault instead of item assignment).
SetProviderUsed_KeepsRaw(parsed, name) ==
    IF parsed.kind = "object"
    THEN Returns(IF "provider_used" \in DOMAIN parsed.doc THEN parsed.doc
                 ELSE DictSet(parsed.doc, "provider_used", name))
    ELSE Raises("list indices must be integers or slices, not str")

\* summary_data['provider_used'] = name: item assignment works on a dict;
\* on a list or a string it raises TypeError.
SetProviderUsed(parsed, name) ==
    IF parsed.kind = "object"
    THEN Returns(DictSet(parsed.doc, "provider_used", name))
    ELSE IF parsed.kind = "array"
    THEN Raises("list indices must be integers or slices, not str")
    ELSE Raises("'str' object does not support item assignment")

\* llm_service.py:142-161, once generate_content has returned `text`.
GeminiParse(text) ==
    LET cleaned == StripFence(text)
        loaded == JsonLoads(cleaned)
    IN  IF ~loaded.ok
        THEN Raises("Gemini returned invalid JSON: " \o loaded.error
                      \o "\nResponse: " \o Prefix(Render(cleaned), 200))
        ELSE LET stamped == SetProviderUsed(loaded.value, "gemini")
             IN  IF stamped.ok THEN stamped
                 ELSE Raises("Gemini API error: " \o stamped.error)

\* llm_service.py:203-214, once chat.completions.create has returned `text`.
OpenAIParse(text) ==
    LET loaded == JsonLoads(text)
    IN  IF ~loaded.ok
        THEN Raises("OpenAI returned invalid JSON: " \o loaded.error)
        ELSE LET stamped == SetProviderUsed(loaded.value, "openai")
             IN  IF stamped.ok THEN stamped
                 ELSE Raises("OpenAI API error: " \o stamped.error)

ParseResponse(p, text) == IF p = "gemini" THEN GeminiParse(text) ELSE OpenAIParse(text)

\* llm_service.py:160-161 / 213-214: an exception of the client library.
ApiErrorMsg(p, reason) ==
    (IF p = "gemini" THEN "Gemini API error: " ELSE "OpenAI API error: ") \o reason

\* llm_service.py:112-117 / 177-182: the checks before the request is sent.
PreCheckError(p) ==
    IF ~LIB_AVAILABLE[p]
    THEN (IF p = "gemini" THEN "Google Generative AI library not installed"
                          ELSE "OpenAI library not installed")
    ELSE IF ~KEY_CONFIGURED[p]
    THEN (IF p = "gemini" THEN "GEMINI_API_KEY not configured in .env file"
                          ELSE "OPENAI_API_KEY not configured in .env file")
    ELSE None

(***************************************************************************)
(* generate_summary                                                        *)
(***************************************************************************)
NoResult == [summary |-> <<>>, provider |-> None]

\* An entry of the history: provider p was invoked ("call"), or its call
\* ended returning `value` ("ok") or raising `msg` ("fail"), after the
\* service had answered `raw` (NoText if it had not).
Event(ev, p, msg, value, raw) == [ev |-> ev, p |-> p, msg |-> msg, value |-> value, raw |-> raw]

CallEvent(p) == Event("call", p, "", <<>>, NoText)

\* A final message that reports the backup's failure only.
ErrorMsg_DropsPrimary(ge, oe, fallback) ==
    "Both LLM providers failed:\n"
      \o (IF fallback THEN "  OpenAI: " \o oe \o "\n"
                      ELSE "  OpenAI: Fallback disabled\n")

\* llm_service.py:270-278: the message of the final exception.
ErrorMsg(ge, oe, fallback) ==
    "Both LLM providers failed:\n"
      \o "  Gemini: " \o ge \o "\n"
      \o (IF fallback THEN "  OpenAI: " \o oe \o "\n"
                      ELSE "  OpenAI: Fallback disabled\n")

\* An override that is honoured for one of the two names only.
IsForced_OpenAIOnly(fp) == fp = "openai"

\* An override that is honoured whenever it is set.
IsForced_WhenSet(fp) == fp # ""

\* llm_service.py:235 / 240: the forced branch is taken for these values.
IsForced(fp) == fp \in {"openai", "gemini"}

\* llm_service.py:252: the provider tried first without an override.
Primary == "gemini"

\* A backup that tries the primary again.
Secondary_RetriesPrimary == "gemini"

\* llm_service.py:263: the provider tried after the primary failed.
Secondary == "openai"

\* A backup that is tried whatever USE_FALLBACK says.
FallbackTaken_Always(fallback) == TRUE

\* A backup that is never tried.
FallbackTaken_Never(fallback) == FALSE

\* llm_service.py:260: whether the backup is tried after a primary failure.
FallbackTaken(fallback) == fallback

LlmInit ==
    /\ FORCE_PROVIDER \in {Lower(v) : v \in ForceValues}
    /\ USE_FALLBACK \in BOOLEAN
    /\ LIB_AVAILABLE \in [Providers -> BOOLEAN]
    /\ KEY_CONFIGURED \in [Providers -> BOOLEAN]
    /\ responsive \in [Providers -> BOOLEAN]
    /\ pc = "Idle"
    /\ inflight = "none"
    /\ gemini_error = None
    /\ openai_error = None
    /\ result = NoResult
    /\ raised = None
    /\ trace = <<>>

\* llm_service.py:234-252: entry of generate_summary up to the first
\* provider invocation.
Start ==
    /\ pc = "Idle"
    /\ IF IsForced(FORCE_PROVIDER)
       THEN /\ pc' = "CallingForced"
            /\ inflight' = FORCE_PROVIDER
       ELSE /\ pc' = "CallingPrimary"
            /\ inflight' = Primary
    /\ trace' = Append(trace, CallEvent(inflight'))
    /\ UNCHANGED <<FORCE_PROVIDER, USE_FALLBACK, LIB_AVAILABLE, KEY_CONFIGURED,
                   responsive, gemini_error, openai_error, result, raised>>
    /\ UNCHANGED fmt_vars
    /\ UNCHANGED store_vars

\* The rest of generate_summary once _call_<p> has ended with `outcome`
\* (llm_service.py:237-243 forced, 252-257 primary, 260-278 backup).
AfterCall(p, outcome, raw) ==
    LET done == Append(trace, Event(IF outcome.ok THEN "ok" ELSE "fail", p,
                                    IF outcome.ok THEN "" ELSE outcome.error,
                                    outcome.value, raw))
    IN
    CASE pc = "CallingForced" ->
           /\ IF outcome.ok
              THEN /\ result' = [summary |-> outcome.value, provider |-> FORCE_PROVIDER]
                   /\ raised' = raised
                   /\ pc' = "Success"
              ELSE /\ raised' = outcome.error
                   /\ result' = result
                   /\ pc' = "Failed"
           /\ inflight' = "none"
           /\ trace' = done
           /\ UNCHANGED <<gemini_error, openai_error>>
      [] pc = "CallingPrimary" ->
           IF outcome.ok
           THEN /\ result' = [summary |-> outcome.value, provider |-> "gemini"]
                /\ pc' = "Success"
                /\ inflight' = "none"
                /\ trace' = done
                /\ UNCHANGED <<gemini_error, openai_error, raised>>
           ELSE /\ gemini_error' = outcome.error
                /\ IF FallbackTaken(USE_FALLBACK)
                   THEN /\ pc' = "CallingSecondary"
                        /\ inflight' = Secondary
                        /\ trace' = Append(done, CallEvent(Secondary))
                        /\ raised' = raised
                   ELSE /\ pc' = "Failed"
                        /\ inflight' = "none"
                        /\ trace' = done
                        /\ raised' = ErrorMsg(gemini_error', openai_error, USE_FALLBACK)
                /\ UNCHANGED <<openai_error, result>>
      [] pc = "CallingSecondary" ->
           /\ IF outcome.ok
              THEN /\ result' = [summary |-> outcome.value, provider |-> "openai"]
                   /\ pc' = "Success"
                   /\ UNCHANGED <<openai_error, raised>>
              ELSE /\ openai_error' = outcome.error
                   /\ raised' = ErrorMsg(gemini_error, openai_error', USE_FALLBACK)
                   /\ pc' = "Failed"
                   /\ result' = result
           /\ inflight' = "none"
           /\ trace' = done
           /\ UNCHANGED gemini_error

Calling == pc \in {"CallingForced", "CallingPrimary", "CallingSecondary"}

\* _call_<p> raises before any request is sent (library missing, no key).
PreCheckFails ==
    /\ Calling
    /\ PreCheckError(inflight) # None
    /\ AfterCall(inflight, Raises(PreCheckError(inflight)), NoText)
    /\ UNCHANGED <<FORCE_PROVIDER, USE_FALLBACK, LIB_AVAILABLE, KEY_CONFIGURED, responsive>>
    /\ UNCHANGED fmt_vars
    /\ UNCHANGED store_vars

\* The client library raises (network, auth, rate limit).
ProviderRaises ==
    /\ Calling
    /\ PreCheckError(inflight) = None
    /\ responsive[inflight]
    /\ \E reason \in ApiErrors :
         AfterCall(inflight, Raises(ApiErrorMsg(inflight, reason)), NoText)
    /\ UNCHANGED <<FORCE_PROVIDER, USE_FALLBACK, LIB_AVAILABLE, KEY_CONFIGURED, responsive>>
    /\ UNCHANGED fmt_vars
    /\ UNCHANGED store_vars

\* The provider answers with some text, which _call_<p> then parses.
ProviderReturns ==
    /\ Calling
    /\ PreCheckError(inflight) = None
    /\ responsive[inflight]
    /\ \E text \in ResponseTexts :
         AfterCall(inflight, ParseResponse(inflight, text), text)
    /\ UNCHANGED <<FORCE_PROVIDER, USE_FALLBACK, LIB_AVAILABLE, KEY_CONFIGURED, responsive>>
    /\ UNCHANGED fmt_vars
    /\ UNCHANGED store_vars


(***************************************************************************)
(* format_for_llm: Python and pandas values                                *)
(***************************************************************************)
\* A missing cell of a DataFrame, as an f-string prints it.
NaN == "nan"

\* dict.get(key, default)
Get(rec, key, default) == IF key \in DOMAIN rec THEN rec[key] ELSE default

\* pd.DataFrame(records): one column per key that occurs, missing cells NaN.
Columns(records) == UNION {DOMAIN records[i] : i \in DOMAIN records}

DataFrame(records) ==
    [i \in DOMAIN records |->
        [c \in Columns(records) |-> IF c \in DOMAIN records[i] THEN records[i][c] ELSE NaN]]

Digit(c) == CHOOSE d \in 0..9 : ToString(d) = c

RECURSIVE ParseInt(_)
ParseInt(s) ==
    IF Len(s) = 0 THEN 0
    ELSE 10 * ParseInt(SubSeq(s, 1, Len(s) - 1)) + Digit(SubSeq(s, Len(s), Len(s)))

\* A Timestamp (midnight of a calendar day), or NaT.
NaT == [y |-> 0, m |-> 0, d |-> 0]

\* pd.to_datetime of one cell holding "YYYY-MM-DD" or NaN.
to_datetime(s) ==
    IF s = NaN THEN NaT
    ELSE [y |-> ParseInt(SubSeq(s, 1, 4)),
          m |-> ParseInt(SubSeq(s, 6, 7)),
          d |-> ParseInt(SubSeq(s, 9, 10))]

\* The order of Timestamps.
DateKey(ts) == ts.y * 10000 + ts.m * 100 + ts.d

Pad2(n) == IF n < 10 THEN "0" \o ToString(n) ELSE ToString(n)

\* Timestamp.strftime('%Y-%m-%d')
strftime(ts) == ToString(ts.y) \o "-" \o Pad2(ts.m) \o "-" \o Pad2(ts.d)

\* str(Timestamp), what an f-string prints for a datetime cell.
TimestampStr(ts) == IF ts = NaT THEN "NaT" ELSE strftime(ts) \o " 00:00:00"

\* df[col] = pd.to_datetime(df[col])
ConvertDates(df, col) == [i \in DOMAIN df |-> [df[i] EXCEPT ![col] = to_datetime(df[i][col])]]

\* df.sort_values(col, ascending=False) on a datetime column: later dates
\* first, NaT last, rows of equal date in their order in df.
Before(df, col, i, j) ==
    LET ki == DateKey(df[i][col])
        kj == DateKey(df[j][col])
    IN  ki > kj \/ (ki = kj /\ i < j)

SortDesc(df, col) ==
    LET rank(i) == Cardinality({j \in DOMAIN df : Before(df, col, j, i)}) + 1
    IN  [p \in DOMAIN df |-> df[CHOOSE i \in DOMAIN df : rank(i) = p]]

\* The rows i, i+1, ... of df, in order, that keep[i] holds for.
RECURSIVE SelectRows(_, _, _)
SelectRows(df, keep, i) ==
    IF i > Len(df) THEN <<>>
    ELSE (IF keep[i] THEN <<df[i]>> ELSE <<>>) \o SelectRows(df, keep, i + 1)

\* The elements of a finite set of integers, ascending.
RECURSIVE Ascending(_)
Ascending(S) ==
    IF S = {} THEN <<>>
    ELSE LET lo == CHOOSE x \in S : \A y \in S : x <= y
         IN  <<lo>> \o Ascending(S \ {lo})

\* The orders in which the elements of a set can be listed.
Orderings(S) ==
    {f \in [1..Cardinality(S) -> S] : \A i, j \in 1..Cardinality(S) : i # j => f[i] # f[j]}

\* The concatenation of the sequences f[i], ..., f[n].
RECURSIVE FlatMap(_, _, _)
FlatMap(f, i, n) == IF i > n THEN <<>> ELSE f[i] \o FlatMap(f, i + 1, n)

(***************************************************************************)
(* format_for_llm: the six sections, each as the lines it appends          *)
(* (the output string is these lines, each followed by a newline).         *)
(***************************************************************************)
\* data_layer.py:222: the number of characters of a note that are kept.
NoteLimit == 500

\* data_layer.py:215: the number of notes that are emitted.
NoteCount == 3

\* data_layer.py:222: what follows the kept characters of a note.
TruncationMarker == "..."

\* data_layer.py:119-131. `order` is the iteration order of the set.
UniqueDiagnoses(diagnoses) ==
    {Get(diagnoses[i], "diagnosis_description", "Unknown") : i \in DOMAIN diagnoses}

DiagnosesSection(diagnoses, order) ==
    <<"## PRIMARY DIAGNOSES">>
      \o (IF Len(diagnoses) > 0
          THEN [i \in 1..Len(order) |-> ToString(i) \o ". " \o order[i]]
          ELSE <<"No diagnosis data available.">>)
      \o <<"">>

\* data_layer.py:133-149
MedicationLines(med) ==
    <<"- " \o Get(med, "medication_name", "Unknown"),
      "  Frequency: " \o Get(med, "frequency", "Unknown")
         \o " | Class: " \o Get(med, "classification", "Unknown")
         \o " | Reason: " \o Get(med, "reason", "Unknown")>>

\* A medications section that shows the last record of each name, at the
\* place of the first.
MedicationsSection_LastWins(medications) ==
    LET name(i) == Get(medications[i], "medication_name", "Unknown")
        last(i) == CHOOSE j \in DOMAIN medications :
                      /\ name(j) = name(i)
                      /\ \A k \in DOMAIN medications : name(k) = name(i) => k <= j
        first == [i \in DOMAIN medications |-> \A j \in 1..(i - 1) : name(j) # name(i)]
        shown == [i \in DOMAIN medications |-> medications[last(i)]]
        kept == SelectRows(shown, first, 1)
        lines == [i \in DOMAIN kept |-> MedicationLines(kept[i])]
    IN  <<"## ACTIVE MEDICATIONS">>
          \o (IF Len(medications) > 0
              THEN FlatMap(lines, 1, Len(kept))
              ELSE <<"No medication data available.">>)
          \o <<"">>

MedicationsSection(medications) ==
    LET name(i) == Get(medications[i], "medication_name", "Unknown")
        first == [i \in DOMAIN medications |-> \A j \in 1..(i - 1) : name(j) # name(i)]
        kept == SelectRows(medications, first, 1)
        lines == [i \in DOMAIN kept |-> MedicationLines(kept[i])]
    IN  <<"## ACTIVE MEDICATIONS">>
          \o (IF Len(medications) > 0
              THEN FlatMap(lines, 1, Len(kept))
              ELSE <<"No medication data available.">>)
          \o <<"">>

\* data_layer.py:155-157: the vitals, dates converted, sorted by date descending.
SortedVitals(vitals) == SortDesc(ConvertDates(DataFrame(vitals), "visit_date"), "visit_date")

\* data_layer.py:160: groupby('visit_date') yields one group per date that
\* occurs (NaT dropped), in ascending order of the date (sort=True, the default).
GroupKeys(df, col) ==
    Ascending({DateKey(df[i][col]) : i \in DOMAIN df} \ {DateKey(NaT)})

\* data_layer.py:161-165: the lines of one date group.
VitalGroupLines(df, key) ==
    LET inGroup == [i \in DOMAIN df |-> DateKey(df[i]["visit_date"]) = key]
        group == SelectRows(df, inGroup, 1)
        line == [i \in DOMAIN group |->
                    <<"  - " \o Get(group[i], "vital_type", "Unknown") \o ": "
                         \o Get(group[i], "reading", "N/A")>>]
    IN  <<"", "**" \o strftime(group[1]["visit_date"]) \o ":**">>
          \o FlatMap(line, 1, Len(group))

\* data_layer.py:151-168
VitalsSection(vitals) ==
    LET df == SortedVitals(vitals)
        keys == GroupKeys(df, "visit_date")
        lines == [k \in DOMAIN keys |-> VitalGroupLines(df, keys[k])]
    IN  <<"## VITAL SIGNS HISTORY">>
          \o (IF Len(vitals) > 0
              THEN FlatMap(lines, 1, Len(keys))
              ELSE <<"No vital signs data available.">>)
          \o <<"">>

\* A deduplication of the wounds without the sort: the first row of each
\* (location, description) in the order of the records.
LatestWounds_Unsorted(wounds) ==
    LET df == ConvertDates(DataFrame(wounds), "visit_date")
        first == [i \in DOMAIN df |->
                     \A j \in 1..(i - 1) :
                        <<df[j]["location"], df[j]["description"]>>
                          # <<df[i]["location"], df[i]["description"]>>]
    IN  SelectRows(df, first, 1)

\* data_layer.py:173-178: the latest row of each (location, description).
LatestWounds(wounds) ==
    LET df == SortDesc(ConvertDates(DataFrame(wounds), "visit_date"), "visit_date")
        first == [i \in DOMAIN df |->
                     \A j \in 1..(i - 1) :
                        <<df[j]["location"], df[j]["description"]>>
                          # <<df[i]["location"], df[i]["description"]>>]
    IN  SelectRows(df, first, 1)

\* A wounds section that leaves an empty category without its notice.
WoundsSection_NoNotice(wounds) ==
    LET latest == LatestWounds(wounds)
        lines == [i \in DOMAIN latest |->
            <<"- " \o Get(latest[i], "description", "Unknown") \o " at "
                 \o Get(latest[i], "location", "Unknown"),
              "  Onset: " \o Get(latest[i], "onset_date", "Unknown")
                 \o " | Last Assessment: " \o TimestampStr(latest[i]["visit_date"])>>]
    IN  <<"## ACTIVE WOUNDS">>
          \o (IF Len(wounds) > 0 THEN FlatMap(lines, 1, Len(latest)) ELSE <<>>)
          \o <<"">>

\* data_layer.py:170-189
WoundsSection(wounds) ==
    LET latest == LatestWounds(wounds)
        lines == [i \in DOMAIN latest |->
            <<"- " \o Get(latest[i], "description", "Unknown") \o " at "
                 \o Get(latest[i], "location", "Unknown"),
              "  Onset: " \o Get(latest[i], "onset_date", "Unknown")
                 \o " | Last Assessment: " \o TimestampStr(latest[i]["visit_date"])>>]
    IN  <<"## ACTIVE WOUNDS">>
          \o (IF Len(wounds) > 0
              THEN FlatMap(lines, 1, Len(latest))
              ELSE <<"No wound data available.">>)
          \o <<"">>

\* The selection of the OASIS record without the sort: the first record of
\* the sequence.
LatestOasis_FirstRow(oasis) ==
    ConvertDates(DataFrame(oasis), "assessment_date")[1]

\* data_layer.py:195-197
LatestOasis(oasis) ==
    SortDesc(ConvertDates(DataFrame(oasis), "assessment_date"), "assessment_date")[1]

\* data_layer.py:191-208
OasisSection(oasis) ==
    <<"## FUNCTIONAL STATUS (OASIS Assessment)">>
      \o (IF Len(oasis) > 0
          THEN LET latest == LatestOasis(oasis)
               IN  <<"**Assessment Date:** " \o TimestampStr(latest["assessment_date"]),
                     "**Type:** " \o Get(latest, "assessment_type", "Unknown"),
                     "",
                     "- **Grooming:** " \o Get(latest, "grooming", "Unknown"),
                     "- **Bathing:** " \o Get(latest, "bathing", "Unknown"),
                     "- **Toilet Transfer:** " \o Get(latest, "toilet_transfer", "Unknown"),
                     "- **Transfer:** " \o Get(latest, "transfer", "Unknown"),
                     "- **Ambulation:** " \o Get(latest, "ambulation", "Unknown")>>
          ELSE <<"No OASIS data available.">>)
      \o <<"">>

\* data_layer.py:213-215: the notes that are emitted, most recent first.
RecentNotes(notes) ==
    LET sorted == SortDesc(ConvertDates(DataFrame(notes), "note_date"), "note_date")
    IN  SubSeq(sorted, 1, Min(NoteCount, Len(sorted)))

\* data_layer.py:222: the line that carries the text of a note.
NoteTextLine(note_text) == Prefix(note_text, NoteLimit) \o TruncationMarker

\* data_layer.py:217-222
NoteLines(note) ==
    <<"",
      "**" \o TimestampStr(note["note_date"]) \o " - "
           \o Get(note, "note_type", "Unknown") \o ":**",
      NoteTextLine(Get(note, "note_text", "No text"))>>

\* data_layer.py:210-224
NotesSection(notes) ==
    LET recent == RecentNotes(notes)
        lines == [i \in DOMAIN recent |-> NoteLines(recent[i])]
    IN  <<"## CLINICAL NOTES (Recent)">>
          \o (IF Len(notes) > 0
              THEN FlatMap(lines, 1, Len(recent))
              ELSE <<"No clinical notes available.">>)

\* The exceptions of format_for_llm: a date column that no record of a
\* non-empty category has (KeyError at 156, 175-177, 196, 214), and
\* slicing the NaN of a note without text (TypeError at 222).
FormatRaises(pd) ==
    \/ Len(pd.vitals) > 0 /\ "visit_date" \notin Columns(pd.vitals)
    \/ Len(pd.wounds) > 0 /\ ~({"visit_date", "location", "description"} \subseteq Columns(pd.wounds))
    \/ Len(pd.oasis) > 0 /\ "assessment_date" \notin Columns(pd.oasis)
    \/ Len(pd.notes) > 0 /\ "note_date" \notin Columns(pd.notes)
    \/ /\ Len(pd.notes) > 0
       /\ "note_date" \in Columns(pd.notes)
       /\ \E i \in DOMAIN RecentNotes(pd.notes) :
             Get(RecentNotes(pd.notes)[i], "note_text", "No text") = NaN

\* data_layer.py:105-226
format_for_llm(pd, order) ==
    <<"# Patient Clinical Data - ID: " \o ToString(pd.patient_id), "">>
      \o DiagnosesSection(pd.diagnoses, order)
      \o MedicationsSection(pd.medications)
      \o VitalsSection(pd.vitals)
      \o WoundsSection(pd.wounds)
      \o OasisSection(pd.oasis)
      \o NotesSection(pd.notes)

(***************************************************************************)
(* The record bundles format_for_llm is run on.                            *)
(***************************************************************************)
\* Bounds of the model.
MaxVitals == 3
MaxNotes == 2
\* How far past NoteLimit the longest note text reaches.
MaxOver == 1
\* The longest sequence of records that lack fields.
MaxPartial == 2
\* The longest sequences of medication, OASIS and wound records.
MaxMeds == 3
MaxOasis == 3
MaxWounds == 3

SeqsUpTo(S, n) == UNION {[1..k -> S] : k \in 0..n}

DateStrings == {"2025-12-31", "2026-01-01", "2026-01-10"}

Alphabet == "abcdefghij"

\* The characters lo..hi of a text whose neighbours always differ.
RECURSIVE TextRange(_, _)
TextRange(lo, hi) ==
    IF lo > hi THEN ""
    ELSE IF lo = hi THEN SubSeq(Alphabet, (lo % 10) + 1, (lo % 10) + 1)
    ELSE LET mid == (lo + hi) \div 2
         IN  TextRange(lo, mid) \o TextRange(mid + 1, hi)

\* A text of n characters.
Text(n) == TextRange(1, n)

\* Lengths of note texts: short, and around the limit.
NoteLens == {2} \cup ((NoteLimit - 1)..(NoteLimit + MaxOver))

NoteTexts == {Text(n) : n \in NoteLens}

VitalRecords == [visit_date : DateStrings, vital_type : {"BP", "HR"}, reading : {"120/80"}]

NoteRecords == [note_date : {"2026-01-01", "2026-01-10"}, note_type : {"NARRATIVE"},
                note_text : NoteTexts]

SampleDiagnoses ==
    <<[diagnosis_description |-> "Hypertension"],
      [diagnosis_description |-> "Diabetes"],
      [diagnosis_description |-> "Hypertension"]>>

SampleMedications ==
    <<[medication_name |-> "Aspirin", frequency |-> "DAILY",
       classification |-> "Analgesic", reason |-> "Pain"],
      [medication_name |-> "Aspirin", frequency |-> "BID",
       classification |-> "Antiplatelet", reason |-> "Stroke"]>>

SampleWounds ==
    <<[location |-> "Heel", description |-> "Ulcer", onset_date |-> "2025-12-01",
       visit_date |-> "2026-01-01"],
      [location |-> "Heel", description |-> "Ulcer", onset_date |-> "2025-12-01",
       visit_date |-> "2026-01-10"]>>

SampleOasis ==
    <<[assessment_date |-> "2026-01-01", assessment_type |-> "SOC", grooming |-> "1",
       bathing |-> "2", toilet_transfer |-> "0", transfer |-> "1", ambulation |-> "3"]>>

SampleVitals ==
    <<[visit_date |-> "2026-01-01", vital_type |-> "BP", reading |-> "120/80"]>>

SampleNotes ==
    <<[note_date |-> "2026-01-01", note_type |-> "NARRATIVE", note_text |-> "ab"]>>

\* A record that has only the fields `keys` of rec.
Restrict(rec, keys) == [k \in keys \cap DOMAIN rec |-> rec[k]]

\* The records that lack any subset of the fields of rec.
Partial(rec) == {Restrict(rec, keys) : keys \in SUBSET DOMAIN rec}

\* The records that lack any subset of the fields `optional` of rec.
PartialIn(rec, optional) ==
    {Restrict(rec, (DOMAIN rec \ optional) \cup keys) : keys \in SUBSET optional}

MedicationRecords ==
    [medication_name : {"Aspirin", "Insulin"}, frequency : {"DAILY", "BID"},
     classification : {"Analgesic"}, reason : {"Pain"}]

OasisRecords ==
    [assessment_date : DateStrings, assessment_type : {"SOC"}, grooming : {"0", "1"},
     bathing : {"2"}, toilet_transfer : {"0"}, transfer : {"1"}, ambulation : {"3"}]

WoundSites ==
    {[location |-> "Heel", description |-> "Ulcer"],
     [location |-> "Heel", description |-> "Tear"],
     [location |-> "Sacrum", description |-> "Ulcer"]}

WoundRecords ==
    {[location |-> w.location, description |-> w.description,
      onset_date |-> "2025-12-01", visit_date |-> d] : w \in WoundSites, d \in DateStrings}

Bundle(dg, md, vt, wd, oa, nt) ==
    [patient_id |-> 1001, diagnoses |-> dg, medications |-> md, vitals |-> vt,
     wounds |-> wd, oasis |-> oa, notes |-> nt]

\* Bundles with any subset of the six categories empty.
EmptyCategoryBundles ==
    {Bundle(dg, md, vt, wd, oa, nt) :
        dg \in {<<>>, SampleDiagnoses}, md \in {<<>>, SampleMedications},
        vt \in {<<>>, SampleVitals}, wd \in {<<>>, SampleWounds},
        oa \in {<<>>, SampleOasis}, nt \in {<<>>, SampleNotes}}

\* Bundles whose records of one category lack fields.
PartialBundles ==
    {Bundle(dg, <<>>, <<>>, <<>>, <<>>, <<>>) :
        dg \in SeqsUpTo(Partial(SampleDiagnoses[1]), MaxPartial)}
      \cup {Bundle(<<>>, md, <<>>, <<>>, <<>>, <<>>) :
              md \in SeqsUpTo(PartialIn(SampleMedications[1], {"medication_name", "frequency"}),
                              MaxPartial)}
      \cup {Bundle(<<>>, <<>>, vt, <<>>, <<>>, <<>>) :
              vt \in SeqsUpTo(Partial(SampleVitals[1]), MaxPartial)}
      \cup {Bundle(<<>>, <<>>, <<>>, wd, <<>>, <<>>) :
              wd \in SeqsUpTo(Partial(SampleWounds[1]), MaxPartial)}
      \cup {Bundle(<<>>, <<>>, <<>>, <<>>, oa, <<>>) :
              oa \in SeqsUpTo(PartialIn(SampleOasis[1],
                                        {"assessment_date", "assessment_type", "grooming"}),
                              MaxPartial)}
      \cup {Bundle(<<>>, <<>>, <<>>, <<>>, <<>>, nt) :
              nt \in SeqsUpTo(Partial(SampleNotes[1]), MaxPartial)}

\* Bundles that vary the medications, the OASIS records, the wounds.
MedicationBundles ==
    {Bundle(<<>>, md, <<>>, <<>>, <<>>, <<>>) : md \in SeqsUpTo(MedicationRecords, MaxMeds)}

OasisBundles ==
    {Bundle(<<>>, <<>>, <<>>, <<>>, oa, <<>>) : oa \in SeqsUpTo(OasisRecords, MaxOasis)}

WoundBundles ==
    {Bundle(<<>>, <<>>, <<>>, wd, <<>>, <<>>) : wd \in SeqsUpTo(WoundRecords, MaxWounds)}

\* Bundles that vary the vitals, and bundles that vary the notes, each
\* with the other categories empty or holding sample rows; and the
\* families above.
Bundles ==
    EmptyCategoryBundles \cup PartialBundles \cup MedicationBundles
      \cup OasisBundles \cup WoundBundles \cup
    {Bundle(<<>>, <<>>, vt, <<>>, <<>>, <<>>) : vt \in SeqsUpTo(VitalRecords, MaxVitals)}
      \cup {Bundle(SampleDiagnoses, SampleMedications, vt, SampleWounds, SampleOasis, <<>>) :
              vt \in SeqsUpTo(VitalRecords, MaxVitals)}
      \cup {Bundle(<<>>, <<>>, <<>>, <<>>, <<>>, nt) : nt \in SeqsUpTo(NoteRecords, MaxNotes)}
      \cup {Bundle(SampleDiagnoses, SampleMedications, <<>>, SampleWounds, SampleOasis, nt) :
              nt \in SeqsUpTo(NoteRecords, MaxNotes)}

(***************************************************************************)
(* The record store: load_all_data, get_patient_ids, get_patient_data.     *)
(* A CSV file is [readable |-> BOOLEAN, rows |-> its rows]; a DataFrame is *)
(* the sequence of its rows.                                               *)
(***************************************************************************)
\* data_layer.py:36-43: the keys of the six tables.
csv_files == {"diagnoses", "medications", "vitals", "notes", "wounds", "oasis"}

\* A file that is missing or cannot be parsed (pd.read_csv raises).
Unreadable == [readable |-> FALSE, rows |-> <<>>]

CsvFile(rows) == [readable |-> TRUE, rows |-> rows]

\* A loader that lets the error of pd.read_csv through: nothing is loaded
\* when a file is unreadable.
load_all_data_Aborts(fs) ==
    [key \in {k \in csv_files : \A j \in csv_files : fs[j].readable} |-> fs[key].rows]

\* data_layer.py:45-54: each file read into a DataFrame, an empty DataFrame
\* for a file that cannot be read.
load_all_data(fs) ==
    [key \in csv_files |-> IF fs[key].readable THEN fs[key].rows ELSE <<>>]

\* DataFrame.empty
Empty(df) == Len(df) = 0

\* data_layer.py:64-68 (after load_all_data)
get_patient_ids(data) ==
    IF "diagnoses" \in DOMAIN data /\ ~Empty(data["diagnoses"])
    THEN Ascending({data["diagnoses"][i]["patient_id"] : i \in DOMAIN data["diagnoses"]})
    ELSE <<>>

\* A filter that keeps every row.
FilterRows_KeepsAll(df, patient_id) == df

\* data_layer.py:96: df[df['patient_id'] == patient_id]
FilterRows(df, patient_id) ==
    SelectRows(df, [i \in DOMAIN df |-> df[i]["patient_id"] = patient_id], 1)

\* data_layer.py:91-102 (after load_all_data)
get_patient_data(data, patient_id) ==
    [key \in csv_files \cup {"patient_id"} |->
        IF key = "patient_id" THEN patient_id
        ELSE IF key \in DOMAIN data /\ ~Empty(data[key])
             THEN FilterRows(data[key], patient_id)
             ELSE <<>>]

\* data_layer.py:96 raises KeyError for a table with rows and no patient_id
\* column; data_layer.py:66 likewise for the diagnoses table.
DataRaises(data) ==
    \E key \in DOMAIN data : ~Empty(data[key]) /\ "patient_id" \notin Columns(data[key])

IdsRaises(data) ==
    /\ "diagnoses" \in DOMAIN data
    /\ ~Empty(data["diagnoses"])
    /\ "patient_id" \notin Columns(data["diagnoses"])

\* Bounds of the model: the longest table.
MaxRows == 3

\* The patients of the tables, and the identifiers that are asked for.
PatientIds == {1001, 1002, 1003}
QueryIds == {1001, 1002, 9999}

\* The records of each table without their patient_id.
Samples ==
    [diagnoses |-> SampleDiagnoses, medications |-> SampleMedications,
     vitals |-> SampleVitals, notes |-> SampleNotes, wounds |-> SampleWounds,
     oasis |-> SampleOasis]

\* The rows a table can hold.
TableRows(key) ==
    {DictSet(Samples[key][i], "patient_id", id) : i \in DOMAIN Samples[key], id \in PatientIds}

\* A table with rows of two patients, interleaved and not in the order of
\* their ids.
SampleTable(key) ==
    [i \in 1..(2 * Len(Samples[key])) |->
        DictSet(Samples[key][(i + 1) \div 2], "patient_id", IF i % 2 = 1 THEN 1002 ELSE 1001)]

\* The states of every file: unreadable, without rows, the sample table,
\* and a table without the patient_id column.
FileKinds == {"unreadable", "empty", "sample", "no patient_id"}

FileOf(key, kind) ==
    CASE kind = "unreadable" -> Unreadable
      [] kind = "empty" -> CsvFile(<<>>)
      [] kind = "sample" -> CsvFile(SampleTable(key))
      [] OTHER -> CsvFile(Samples[key])

\* The directories the store is run on: every combination of file states,
\* and every content of one table beside the sample tables.
Directories ==
    {[key \in csv_files |-> FileOf(key, kinds[key])] : kinds \in [csv_files -> FileKinds]}
      \cup UNION {{[key \in csv_files |->
                      IF key = varied THEN CsvFile(rows) ELSE CsvFile(SampleTable(key))] :
                    rows \in SeqsUpTo(TableRows(varied), MaxRows)} : varied \in csv_files}

\* What get_patient_data has returned before it is called.
NoData == [patient_id |-> 0]

\* No query on the store is under way.
StoreIdle ==
    /\ files = [key \in csv_files |-> Unreadable]
    /\ store_pc = "idle"
    /\ query = 0
    /\ returned_data = NoData
    /\ returned_ids = <<>>

\* One call of get_patient_data, load_all_data included.
GetPatientData ==
    /\ store_pc = "ready"
    /\ \E patient_id \in QueryIds :
         LET data == load_all_data(files)
         IN  /\ query' = patient_id
             /\ IF DataRaises(data)
                THEN /\ store_pc' = "raised"
                     /\ returned_data' = NoData
                ELSE /\ store_pc' = "data"
                     /\ returned_data' = get_patient_data(data, patient_id)
    /\ UNCHANGED <<files, returned_ids>>
    /\ UNCHANGED <<llm_vars, fmt_vars>>

\* One call of get_patient_ids, load_all_data included.
GetPatientIds ==
    /\ store_pc = "ready"
    /\ LET data == load_all_data(files)
       IN  IF IdsRaises(data)
           THEN /\ store_pc' = "raised"
                /\ returned_ids' = <<>>
           ELSE /\ store_pc' = "ids"
                /\ returned_ids' = get_patient_ids(data)
    /\ UNCHANGED <<files, query, returned_data>>
    /\ UNCHANGED <<llm_vars, fmt_vars>>

(***************************************************************************)
(* Specifications                                                          *)
(***************************************************************************)
\* No earlier run of the program has formatted the bundle.
NotRun == <<"(not run)">>

\* No format_for_llm call is under way.
FmtIdle ==
    /\ patient_data = Bundle(<<>>, <<>>, <<>>, <<>>, <<>>, <<>>)
    /\ fmt_pc = "idle"
    /\ output = <<>>
    /\ prev_output = NotRun

\* No generate_summary call is under way.
LlmIdle ==
    /\ FORCE_PROVIDER = ""
    /\ USE_FALLBACK = TRUE
    /\ LIB_AVAILABLE = [p \in Providers |-> TRUE]
    /\ KEY_CONFIGURED = [p \in Providers |-> TRUE]
    /\ responsive = [p \in Providers |-> TRUE]
    /\ pc = "NotStarted"
    /\ inflight = "none"
    /\ gemini_error = None
    /\ openai_error = None
    /\ result = NoResult
    /\ raised = None
    /\ trace = <<>>

\* One call of format_for_llm on patient_data.
Format ==
    /\ fmt_pc = "ready"
    /\ IF FormatRaises(patient_data)
       THEN /\ fmt_pc' = "raised"
            /\ output' = <<>>
       ELSE /\ fmt_pc' = "done"
            /\ \E order \in Orderings(UniqueDiagnoses(patient_data.diagnoses)) :
                 output' = format_for_llm(patient_data, order)
    /\ UNCHANGED <<patient_data, prev_output>>
    /\ UNCHANGED llm_vars
    /\ UNCHANGED store_vars

\* The program is run again and format_for_llm is called on the same
\* bundle: the iteration order of the set of diagnoses (data_layer.py:123-127,
\* a set of str, hashed with the seed of the process) is chosen anew.
FormatAgain ==
    /\ fmt_pc = "done"
    /\ prev_output = NotRun
    /\ prev_output' = output
    /\ \E order \in Orderings(UniqueDiagnoses(patient_data.diagnoses)) :
         output' = format_for_llm(patient_data, order)
    /\ UNCHANGED <<patient_data, fmt_pc>>
    /\ UNCHANGED llm_vars
    /\ UNCHANGED store_vars

\* One generate_summary call, under every configuration and environment.
Init == LlmInit /\ FmtIdle /\ StoreIdle

Next == Start \/ PreCheckFails \/ ProviderRaises \/ ProviderReturns

Spec == Init /\ [][Next]_vars

\* generate_summary is sequential code: a step that can be taken is taken.
FairSpec == Spec /\ WF_vars(Next)

\* One format_for_llm call, on every bundle of Bundles.
FmtInit ==
    /\ LlmIdle
    /\ patient_data \in Bundles
    /\ fmt_pc = "ready"
    /\ output = <<>>
    /\ prev_output = NotRun
    /\ StoreIdle

FmtNext == Format \/ FormatAgain

FmtSpec == FmtInit /\ [][FmtNext]_vars

\* One query of the record store, on every directory of Directories.
StoreInit ==
    /\ LlmIdle
    /\ FmtIdle
    /\ files \in Directories
    /\ store_pc = "ready"
    /\ query = 0
    /\ returned_data = NoData
    /\ returned_ids = <<>>

StoreNext == GetPatientData \/ GetPatientIds

StoreSpec == StoreInit /\ [][StoreNext]_vars

(***************************************************************************)
(* Properties of generate_summary (specifications Spec and FairSpec)       *)
(***************************************************************************)
Terminal == pc \in {"Success", "Failed"}

\* No override that the code honours is configured.
DefaultMode == FORCE_PROVIDER \notin {"openai", "gemini"}

\* How often provider p was invoked in this call.
Calls(p) == Cardinality({i \in DOMAIN trace : trace[i].ev = "call" /\ trace[i].p = p})

\* The invocations of p that ended in a failure.
Failures(p) == {i \in DOMAIN trace : trace[i].ev = "fail" /\ trace[i].p = p}

\* The completed invocations for which the service sent a response text.
Answered == {i \in DOMAIN trace : trace[i].raw.body.kind # "none"}

\* The fixed summary schema: 'summary', 'sections', and 'content' and
\* 'citations' in every section.
SchemaOK(doc) ==
    /\ {"summary", "sections"} \subseteq DOMAIN doc
    /\ \A sec \in DOMAIN doc.sections :
         {"content", "citations"} \subseteq DOMAIN doc.sections[sec]

\* C1: with no forced override and fallback enabled, once the primary
\* (Gemini) call has failed, for whatever reason, the secondary (OpenAI)
\* has been invoked exactly once, and if that invocation succeeds the call
\* returns the secondary's value with provider name 'openai'.
C1_FallbackInvokesSecondaryOnce ==
    (DefaultMode /\ USE_FALLBACK /\ Failures("gemini") # {}) =>
        /\ Calls("openai") = 1
        /\ \A i \in DOMAIN trace :
             (trace[i].ev = "ok" /\ trace[i].p = "openai") =>
                 /\ pc = "Success"
                 /\ result = [summary |-> trace[i].value, provider |-> "openai"]
        /\ pc = "Success" => \E i \in DOMAIN trace : trace[i].ev = "ok" /\ trace[i].p = "openai"

C1_Witness ==
    /\ DefaultMode /\ USE_FALLBACK /\ Failures("gemini") # {}
    /\ pc = "Success"
    /\ result.provider = "openai"

\* C2: with a forced provider ('openai' or 'gemini') exactly that provider
\* is invoked, once; the other provider is never invoked, whether the
\* forced call succeeds or fails; a failure ends the call with the forced
\* provider's own error, unchanged.
C2_ForcedCallsOnlyThatProvider ==
    FORCE_PROVIDER \in {"openai", "gemini"} =>
        LET other == IF FORCE_PROVIDER = "openai" THEN "gemini" ELSE "openai"
        IN  /\ Calls(other) = 0
            /\ Calls(FORCE_PROVIDER) = (IF pc = "Idle" THEN 0 ELSE 1)
            /\ \A i \in Failures(FORCE_PROVIDER) :
                 pc = "Failed" /\ raised = trace[i].msg /\ result = NoResult
            /\ pc = "Success" => result.provider = FORCE_PROVIDER
            /\ pc = "Failed" => Failures(FORCE_PROVIDER) # {}

C2_Witness ==
    /\ FORCE_PROVIDER = "gemini"
    /\ USE_FALLBACK
    /\ pc = "Failed"
    /\ Failures("gemini") # {}

\* C3: with no forced override and fallback enabled, when both provider
\* calls have failed the call ends in failure, returns no summary, and the
\* message of the exception contains the primary's and the secondary's
\* failure reason.
C3_BothFailuresReported ==
    (DefaultMode /\ USE_FALLBACK /\ Failures("gemini") # {} /\ Failures("openai") # {}) =>
        /\ pc = "Failed"
        /\ result = NoResult
        /\ \A i \in Failures("gemini") \cup Failures("openai") :
             Contains(raised, trace[i].msg)

C3_Witness ==
    /\ DefaultMode /\ USE_FALLBACK
    /\ Failures("gemini") # {} /\ Failures("openai") # {}
    /\ pc = "Failed"

\* A response that is no JSON object matching the fixed schema.
Malformed(raw) == raw.body.kind # "object" \/ ~SchemaOK(raw.body.doc)

\* A response that json.loads rejects (OpenAI's text is parsed as it is,
\* Gemini's after the enclosing code fence is removed) or that is JSON but
\* no object.
Unparseable(p, raw) == raw.body.kind # "object" \/ (p = "openai" /\ raw.fence # "none")

\* In default mode with fallback enabled, the failure at trace[i] of the
\* primary is followed by the invocation of the secondary.
TriggersSecondary(i) ==
    (DefaultMode /\ USE_FALLBACK /\ trace[i].p = "gemini") =>
        (i < Len(trace) /\ trace[i + 1].ev = "call" /\ trace[i + 1].p = "openai")

\* C4 as stated: a response that is not valid JSON, or is valid JSON that
\* does not match the summary schema (no 'summary', no 'sections', a
\* section without 'content' or 'citations'), is a failure of that
\* provider and triggers the secondary as a network failure does.
C4_MalformedResponseIsFailure ==
    \A i \in Answered :
        Malformed(trace[i].raw) => (trace[i].ev = "fail" /\ TriggersSecondary(i))

\* C4 as the code has it: a response is a failure of its provider exactly
\* when it is not valid JSON or is JSON that is no object, and then it
\* triggers the secondary as a network failure does; a JSON object is
\* returned as a success whatever keys it has.
C4_UnparseableResponseIsFailure ==
    \A i \in Answered :
        /\ Unparseable(trace[i].p, trace[i].raw) =>
               (trace[i].ev = "fail" /\ TriggersSecondary(i))
        /\ ~Unparseable(trace[i].p, trace[i].raw) =>
               (trace[i].ev = "ok" /\ pc = "Success")

C4_Witness ==
    /\ DefaultMode /\ USE_FALLBACK
    /\ \E i \in Answered :
         /\ trace[i].p = "gemini" /\ trace[i].raw.body.kind = "array"
         /\ trace[i].ev = "fail"
    /\ \E i \in Answered :
         /\ trace[i].p = "openai" /\ trace[i].ev = "ok"
         /\ ~SchemaOK(trace[i].raw.body.doc)

\* C5: whenever the call returns, the returned provider name and the
\* summary's 'provider_used' are equal, are 'gemini' or 'openai', and name
\* the provider whose invocation succeeded, whatever 'provider_used' the
\* response text itself held.
C5_ProviderStampIsTheSuccessfulProvider ==
    pc = "Success" =>
        /\ result.provider \in {"gemini", "openai"}
        /\ "provider_used" \in DOMAIN result.summary
        /\ result.summary["provider_used"] = result.provider
        /\ {i \in DOMAIN trace : trace[i].ev = "ok"} = {Len(trace)}
        /\ trace[Len(trace)].p = result.provider

C5_Witness ==
    /\ pc = "Success"
    /\ result.provider = "gemini"
    /\ "provider_used" \in DOMAIN trace[Len(trace)].raw.body.doc
    /\ trace[Len(trace)].raw.body.doc["provider_used"] = "openai"

\* The history is one invocation at a time: every invocation is directly
\* followed by its own outcome, no provider is invoked twice, and without
\* an override the secondary is invoked only as the third entry, after the
\* invocation of the primary and its failure.
C6_Order ==
    /\ \A p \in Providers : Calls(p) <= 1
    /\ \A i \in DOMAIN trace :
         IF trace[i].ev = "call"
         THEN i < Len(trace) =>
                  (trace[i + 1].ev \in {"ok", "fail"} /\ trace[i + 1].p = trace[i].p)
         ELSE i > 1 /\ trace[i - 1].ev = "call" /\ trace[i - 1].p = trace[i].p
    /\ DefaultMode =>
         \A i \in DOMAIN trace :
            (trace[i].ev = "call" /\ trace[i].p = "openai") =>
                /\ i = 3
                /\ trace[1].ev = "call" /\ trace[1].p = "gemini"
                /\ trace[2].ev = "fail" /\ trace[2].p = "gemini"
    /\ Terminal => (trace # <<>> /\ trace[Len(trace)].ev \in {"ok", "fail"})

\* C6: within one call each provider is invoked at most once, the
\* secondary only after the primary's invocation has ended in failure
\* (never before it, never while it runs), and nothing is invoked once the
\* call has reached Success or Failed.
C6_SequentialAtMostOnce ==
    /\ []C6_Order
    /\ [][Terminal => (trace' = trace /\ pc' = pc)]_vars

C6_Witness ==
    /\ DefaultMode
    /\ Terminal
    /\ Calls("gemini") = 1 /\ Calls("openai") = 1

\* C7: with no forced override and fallback disabled, a failure of the
\* primary ends the call in failure, the secondary is never invoked, and
\* the message of the exception contains the primary's failure reason.
C7_NoFallbackWhenDisabled ==
    (DefaultMode /\ ~USE_FALLBACK /\ Failures("gemini") # {}) =>
        /\ pc = "Failed"
        /\ Calls("openai") = 0
        /\ result = NoResult
        /\ \A i \in Failures("gemini") : Contains(raised, trace[i].msg)

C7_Witness ==
    /\ DefaultMode /\ ~USE_FALLBACK
    /\ Failures("gemini") # {}
    /\ pc = "Failed"

\* C8: every call eventually reaches Success or Failed, also when a
\* provider never responds (a timeout ends the provider call and counts
\* as its failure).
C8_EveryCallEnds == <>Terminal

\* C19: the forced branch is taken only for 'openai' and 'gemini' (after
\* lower-casing): with any other value of the override, the empty string
\* and an unrecognised name included, the call goes as with no override:
\* Gemini is invoked first, once, and OpenAI is invoked (once) exactly when
\* the Gemini call has failed and fallback is enabled; a success is
\* returned under the name of the provider that produced it.
C19_UnrecognisedOverrideIsNoOverride ==
    FORCE_PROVIDER \notin {"openai", "gemini"} =>
        /\ pc # "CallingForced"
        /\ pc # "Idle" => trace[1] = CallEvent("gemini")
        /\ Calls("gemini") = (IF pc = "Idle" THEN 0 ELSE 1)
        /\ Calls("openai") = (IF USE_FALLBACK /\ Failures("gemini") # {} THEN 1 ELSE 0)
        /\ pc = "Success" =>
              \E i \in DOMAIN trace :
                  /\ trace[i].ev = "ok"
                  /\ result = [summary |-> trace[i].value, provider |-> trace[i].p]

\* With the override set to a name the code does not know, Gemini was
\* tried and failed and the call returned OpenAI's answer.
C19_Witness ==
    /\ FORCE_PROVIDER = "claude"
    /\ Failures("gemini") # {}
    /\ pc = "Success"
    /\ result.provider = "openai"

(***************************************************************************)
(* Properties of format_for_llm (specification FmtSpec)                    *)
(***************************************************************************)
\* The position of a line in the output (0 if it does not occur).
LineIndex(line) ==
    IF \E i \in DOMAIN output : output[i] = line
    THEN CHOOSE i \in DOMAIN output : output[i] = line
    ELSE 0

\* The header line of the vitals group of a visit date.
VitalsGroupHeader(date) == "**" \o date \o ":**"

VisitDates ==
    {patient_data.vitals[i].visit_date :
        i \in {j \in DOMAIN patient_data.vitals : "visit_date" \in DOMAIN patient_data.vitals[j]}}

\* C9: the vitals are grouped by visit date and the groups appear most
\* recent first: of two visit dates of the bundle, the group of the later
\* one comes before the group of the earlier one.
C9_VitalsGroupsMostRecentFirst ==
    fmt_pc = "done" =>
        \A later, earlier \in VisitDates :
            DateKey(to_datetime(later)) > DateKey(to_datetime(earlier)) =>
                /\ LineIndex(VitalsGroupHeader(later)) > 0
                /\ LineIndex(VitalsGroupHeader(earlier)) > 0
                /\ LineIndex(VitalsGroupHeader(later)) < LineIndex(VitalsGroupHeader(earlier))

\* What C10 expects for a note text: cut to 500 characters and marked
\* when longer, unchanged otherwise.
ExpectedNoteLine(text) ==
    IF Len(text) > 500 THEN SubSeq(text, 1, 500) \o "..." ELSE text

\* C10: each emitted note shows its text cut to the first 500 characters
\* followed by the marker when the text is longer than 500 characters,
\* and shows a text of 500 characters or fewer as it is, with no marker.
C10_NoteTruncatedOnlyWhenLong ==
    fmt_pc = "done" =>
        LET header == LineIndex("## CLINICAL NOTES (Recent)")
            recent == RecentNotes(patient_data.notes)
        IN  \A k \in DOMAIN recent :
                output[header + 3 * k] = ExpectedNoteLine(Get(recent[k], "note_text", "No text"))

\* C13: format_for_llm is deterministic: two invocations on the same
\* bundle, also in different runs of the program, return the same string;
\* the numbered order of the diagnoses depends on the bundle alone.
C13_SameBundleSameOutput ==
    (fmt_pc = "done" /\ prev_output # NotRun) => output = prev_output

\* C11: format_for_llm is total and defaults every absent field: whatever
\* fields the records of the bundle lack, it returns (it never raises), and
\* the absent field shows as its placeholder, never as a missing-value
\* marker of the data frame ("nan", "NaT").
C11_TotalWithPlaceholders ==
    /\ fmt_pc # "raised"
    /\ fmt_pc = "done" =>
          \A i \in DOMAIN output :
              ~Contains(output[i], "nan") /\ ~Contains(output[i], "NaT")

\* The six categories in the order of their sections, with the header and
\* the no-data notice of each, and the fields of its records.
Categories == <<"diagnoses", "medications", "vitals", "wounds", "oasis", "notes">>

Headers ==
    <<"## PRIMARY DIAGNOSES", "## ACTIVE MEDICATIONS", "## VITAL SIGNS HISTORY",
      "## ACTIVE WOUNDS", "## FUNCTIONAL STATUS (OASIS Assessment)",
      "## CLINICAL NOTES (Recent)">>

Notices ==
    <<"No diagnosis data available.", "No medication data available.",
      "No vital signs data available.", "No wound data available.",
      "No OASIS data available.", "No clinical notes available.">>

Fields ==
    <<{"diagnosis_description"},
      {"medication_name", "frequency", "classification", "reason"},
      {"visit_date", "vital_type", "reading"},
      {"location", "description", "onset_date", "visit_date"},
      {"assessment_date", "assessment_type", "grooming", "bathing", "toilet_transfer",
       "transfer", "ambulation"},
      {"note_date", "note_type", "note_text"}>>

\* Every record of category k has all the fields of its category.
Complete(k) ==
    \A i \in DOMAIN patient_data[Categories[k]] :
        Fields[k] \subseteq DOMAIN patient_data[Categories[k]][i]

Occurrences(line) == {i \in DOMAIN output : output[i] = line}

\* C12: whatever subset of the six categories is empty (the records of
\* the others having their fields), format_for_llm does not raise; the six
\* section headers appear once each in the order diagnoses, medications,
\* vitals, wounds, OASIS, notes; and the header of each empty category is
\* directly followed by the no-data notice of that category.
C12_EmptyCategoriesGetTheirNotice ==
    /\ (\A k \in 1..6 : Complete(k)) => fmt_pc # "raised"
    /\ fmt_pc = "done" =>
          /\ \A k \in 1..6 : Cardinality(Occurrences(Headers[k])) = 1
          /\ \A k \in 1..5 : LineIndex(Headers[k]) < LineIndex(Headers[k + 1])
          /\ \A k \in 1..6 :
                Len(patient_data[Categories[k]]) = 0 =>
                    /\ LineIndex(Headers[k]) < Len(output)
                    /\ output[LineIndex(Headers[k]) + 1] = Notices[k]

\* A bundle with wounds and notes empty and the other categories filled
\* has been formatted, and the wounds notice is in the output.
C12_Witness ==
    /\ fmt_pc = "done"
    /\ patient_data.wounds = <<>>
    /\ patient_data.notes = <<>>
    /\ patient_data.diagnoses # <<>>
    /\ patient_data.vitals # <<>>
    /\ patient_data.oasis # <<>>
    /\ LineIndex("No wound data available.") > 0

\* The name of the i-th medication record, and whether it is the first
\* record of the sequence with that name.
MedName(i) == Get(patient_data.medications[i], "medication_name", "Unknown")

FirstOfName(i) == \A j \in 1..(i - 1) : MedName(j) # MedName(i)

\* The number of distinct names among the records 1..i.
NamesUpTo(i) == Cardinality({MedName(j) : j \in 1..i})

\* The metadata line of the i-th medication record.
MedMetadata(i) ==
    LET med == patient_data.medications[i]
    IN  "  Frequency: " \o Get(med, "frequency", "Unknown")
          \o " | Class: " \o Get(med, "classification", "Unknown")
          \o " | Reason: " \o Get(med, "reason", "Unknown")

\* C14: the medications section has exactly one entry per distinct
\* medication name, the entries are in the order in which the names first
\* occur, and each entry shows the frequency, classification and reason of
\* the first record with its name.
C14_MedicationsFirstSeenWins ==
    (fmt_pc = "done" /\ Len(patient_data.medications) > 0) =>
        LET h == LineIndex("## ACTIVE MEDICATIONS")
            n == NamesUpTo(Len(patient_data.medications))
        IN  /\ output[h + 2 * n + 1] = ""
            /\ \A i \in DOMAIN patient_data.medications :
                  /\ Cardinality(Occurrences("- " \o MedName(i))) = 1
                  /\ FirstOfName(i) =>
                        /\ output[h + 2 * NamesUpTo(i) - 1] = "- " \o MedName(i)
                        /\ output[h + 2 * NamesUpTo(i)] = MedMetadata(i)

\* Three medication records have been formatted: the first and the third
\* have the same name and different frequencies, the second another name.
C14_Witness ==
    /\ fmt_pc = "done"
    /\ Len(patient_data.medications) = 3
    /\ MedName(1) = MedName(3)
    /\ MedName(1) # MedName(2)
    /\ MedMetadata(1) # MedMetadata(3)
    /\ Occurrences(MedMetadata(1)) # {}

\* The lines of the functional-status section that show the i-th OASIS
\* record of the bundle.
OasisShown(i) ==
    LET rec == patient_data.oasis[i]
    IN  <<"**Assessment Date:** " \o rec.assessment_date \o " 00:00:00",
          "**Type:** " \o rec.assessment_type,
          "",
          "- **Grooming:** " \o rec.grooming,
          "- **Bathing:** " \o rec.bathing,
          "- **Toilet Transfer:** " \o rec.toilet_transfer,
          "- **Transfer:** " \o rec.transfer,
          "- **Ambulation:** " \o rec.ambulation>>

\* No OASIS record of the bundle is dated after the i-th.
LatestAssessment(i) ==
    \A j \in DOMAIN patient_data.oasis :
        DateKey(to_datetime(patient_data.oasis[j].assessment_date))
          <= DateKey(to_datetime(patient_data.oasis[i].assessment_date))

\* C15: for a non-empty sequence of OASIS records (with their fields), the
\* functional-status section consists of the fields of one record, a
\* record with the maximum assessment date of the bundle: the eight lines
\* after the header are the lines of that record and the section ends
\* there, so no field of an older record appears.
C15_OasisShowsLatestRecordOnly ==
    (fmt_pc = "done" /\ Len(patient_data.oasis) > 0 /\ Complete(5)) =>
        LET h == LineIndex("## FUNCTIONAL STATUS (OASIS Assessment)")
        IN  /\ \E i \in DOMAIN patient_data.oasis :
                  /\ LatestAssessment(i)
                  /\ SubSeq(output, h + 1, h + 8) = OasisShown(i)
            /\ output[h + 9] = ""
            /\ output[h + 10] = "## CLINICAL NOTES (Recent)"

\* Three OASIS records have been formatted, the latest in the middle and
\* differing from the others in a field; its lines are in the output.
C15_Witness ==
    /\ fmt_pc = "done"
    /\ Len(patient_data.oasis) = 3
    /\ Complete(5)
    /\ LatestAssessment(2)
    /\ ~LatestAssessment(1)
    /\ ~LatestAssessment(3)
    /\ patient_data.oasis[2].grooming # patient_data.oasis[1].grooming
    /\ Occurrences("- **Grooming:** " \o patient_data.oasis[2].grooming) # {}

\* The (location, description) pair of the i-th wound record, and the two
\* lines of the entry that shows the record.
WoundSite(i) == <<patient_data.wounds[i].location, patient_data.wounds[i].description>>

WoundEntry(i) ==
    LET rec == patient_data.wounds[i]
    IN  <<"- " \o rec.description \o " at " \o rec.location,
          "  Onset: " \o rec.onset_date \o " | Last Assessment: "
             \o rec.visit_date \o " 00:00:00">>

WoundDate(i) == DateKey(to_datetime(patient_data.wounds[i].visit_date))

\* No wound record of the same pair is dated after the i-th.
LatestOfSite(i) ==
    \A j \in DOMAIN patient_data.wounds : WoundSite(j) = WoundSite(i) => WoundDate(j) <= WoundDate(i)

RECURSIVE Matching(_, _)
Matching(rows, id) ==
    IF Len(rows) = 0 THEN <<>>
    ELSE (IF Head(rows).patient_id = id THEN <<Head(rows)>> ELSE <<>>)
           \o Matching(Tail(rows), id)

\* Every row of the table has a patient_id.
HasPatientId(key) ==
    \A i \in DOMAIN files[key].rows : "patient_id" \in DOMAIN files[key].rows[i]

\* The patient has a row in some table.
Known(id) ==
    \E key \in csv_files : \E i \in DOMAIN files[key].rows : files[key].rows[i].patient_id = id

\* C16: get_patient_data(id) returns, for each of the six categories,
\* exactly the rows of the table whose patient_id equals id (so every
\* record of the bundle carries the bundle's identifier); for an identifier
\* that occurs in no table it returns six empty sequences; it raises no
\* error (the tables having a patient_id column).
C16_BundleHoldsExactlyThePatientsRows ==
    (\A key \in csv_files : HasPatientId(key)) =>
        /\ store_pc # "raised"
        /\ store_pc = "data" =>
              /\ returned_data.patient_id = query
              /\ \A key \in csv_files :
                    /\ returned_data[key] = Matching(files[key].rows, query)
                    /\ \A i \in DOMAIN returned_data[key] :
                          returned_data[key][i].patient_id = returned_data.patient_id
              /\ ~Known(query) => \A key \in csv_files : returned_data[key] = <<>>

\* get_patient_data has returned some, and not all, rows of a readable
\* diagnoses table.
C16_Witness ==
    /\ store_pc = "data"
    /\ \A key \in csv_files : files[key].readable /\ HasPatientId(key)
    /\ Len(returned_data.diagnoses) > 0
    /\ Len(returned_data.diagnoses) < Len(files.diagnoses.rows)

\* C17: whatever subset of the six files is missing or unreadable, no
\* operation of the store raises; get_patient_data returns the empty
\* sequence for each unavailable category and the patient's rows for each
\* available one; get_patient_ids returns the empty list when the
\* diagnoses file is unavailable and otherwise the distinct patient ids of
\* the diagnoses table in ascending order.
C17_UnavailableTableDegradesToEmpty ==
    (\A key \in csv_files : HasPatientId(key)) =>
        /\ store_pc \in {"ready", "data", "ids"}
        /\ store_pc = "data" =>
              \A key \in csv_files :
                  IF files[key].readable
                  THEN returned_data[key] = Matching(files[key].rows, query)
                  ELSE returned_data[key] = <<>>
        /\ store_pc = "ids" =>
              IF files.diagnoses.readable
              THEN /\ \A i \in 1..(Len(returned_ids) - 1) : returned_ids[i] < returned_ids[i + 1]
                   /\ {returned_ids[i] : i \in DOMAIN returned_ids}
                        = {files.diagnoses.rows[i].patient_id : i \in DOMAIN files.diagnoses.rows}
              ELSE returned_ids = <<>>

\* get_patient_data has returned with the wounds file unreadable and the
\* vitals file readable: no wounds, and the patient's vitals.
C17_Witness ==
    /\ store_pc = "data"
    /\ ~files.wounds.readable
    /\ ~files.diagnoses.readable
    /\ files.vitals.readable
    /\ returned_data.wounds = <<>>
    /\ Len(returned_data.vitals) > 0

====
